---- MODULE Spec2Model ----
(***************************************************************************)
(* WeatherService (weather_service package): the shared city registry      *)
(* mapOfCities, the registration flow addCitiesToDB that grows it, the     *)
(* periodic collector insertWeatherData and the periodic digest dispatcher *)
(* sendWeatherEmails.                                                      *)
(*                                                                         *)
(* Goroutines are processes with a program counter.  Every access to the   *)
(* map mapOfCities is a step of its own, so that two goroutines standing   *)
(* at conflicting accesses are visible as a state.  mapMu is declared in   *)
(* the source and never locked by any function, so no step acquires it.    *)
(***************************************************************************)
EXTENDS Integers, Sequences, FiniteSets, Bags, TLC

\* ------------------------------------------------------------------ bounds
MaxInput == 3       \* longest cities list of one request served alone
MaxConcInput == 1   \* longest cities list of a request served beside another one
MaxCalls == 2       \* addCitiesToDB calls started in one run
MaxGeoCalls == 4    \* names handed to addCitiesToDB in one run, all calls together
MaxTicks == 2       \* ticks of a periodic task in one run
MaxSubs == 2        \* longest cities list of a stored user
MaxRequests == 2    \* requests (createUser and the others) in one run
MaxStr == 2         \* longest string field of an encoded EmailTask, in characters

\* --------------------------------------------------------------- universes
NoName == ""                         \* the Name of the zero CityType{}
Names == {"Tokyo", "Oslo"}           \* city names a request may carry
Coords == {1, 2}                     \* distinct (lat, lon) pairs the provider may answer
ZeroCoords == 0                      \* Lat, Lon of the zero CityType{}
Handlers == {"h1", "h2"}             \* goroutines serving registration requests
Emails == {"u1", "u2"}               \* primary keys of the table users

CityType(n, c) == [Name |-> n, Co |-> c]
ZeroCity == CityType(NoName, ZeroCoords)

RECURSIVE SeqsUpTo(_, _)
SeqsUpTo(S, n) ==
  IF n = 0 THEN {<<>>}
  ELSE LET shorter == SeqsUpTo(S, n - 1)
       IN shorter \cup {Append(s, x) : s \in {t \in shorter : Len(t) = n - 1}, x \in S}

Range(s) == {s[k] : k \in 1..Len(s)}

VARIABLES
  mapOfCities,    \* the registry: a function from the registered names to CityType
  citiesTable,    \* rows of the ClickHouse table cities, a bag of <<city, coords>>
  crashed,        \* "no", or how the process died: "fatal" (runtime fatal error on a
                  \* concurrent map access) or "panic" (unrecovered panic of a goroutine)
  call,           \* per handler: the locals of its addCitiesToDB call
  nCalls,         \* addCitiesToDB calls started so far
  nGeo,           \* names handed to addCitiesToDB so far (each costs one provider call at most)
  coll,           \* the collector goroutine: the locals of insertWeatherData and its tick
  metrics,        \* rows of the ClickHouse table weather_metrics, a bag of <<tick, city>>
  disp,           \* the dispatcher goroutine: the locals of sendWeatherEmails and its tick
  users,          \* the Postgres table users: email -> cities
  queue,          \* the tasks published to email_exchange, each with the tick that
                  \* published it and the cities of the row it was composed for
  user,           \* per handler: the locals of its createUser call
  welcome,        \* the goroutines started by createUser (line 119), in start order
  created,        \* the createUser calls that have returned, in return order
  codec           \* one EmailTask on its way through json.Marshal and back

vars == <<mapOfCities, citiesTable, crashed, call, nCalls, nGeo, coll, metrics,
          disp, users, queue, user, welcome, created, codec>>
reqVars == <<user, welcome, created>>
collVars == <<coll, metrics>>
dispVars == <<disp, users, queue>>

Alive == crashed = "no"

\* ------------------------------------------------------------ getCoordinates
(* What getCoordinates returns for cityName: an error with the zero CityType  *)
(* (transport error, non-200, undecodable body, zero candidates), or the      *)
(* first candidate of the provider, whose name is the provider's: the name    *)
(* asked for, or no name at all when the candidate carries none.              *)
getCoordinates(cityName) ==
  {[city |-> ZeroCity, err |-> TRUE]} \cup
  {[city |-> CityType(n, c), err |-> FALSE] : n \in {cityName, NoName}, c \in Coords}

\* --------------------------------------------------------------- createTables
\* Lines 96-116: every row of the table cities is put into mapOfCities under its name.
SeedTables == {EmptyBag, SetToBag({<<"Tokyo", 1>>})}

createTables(table) ==
  [n \in {row[1] : row \in BagToSet(table)} |->
     CityType(n, (CHOOSE row \in BagToSet(table) : row[1] = n)[2])]

\* ------------------------------------------------------------- addCitiesToDB
IdleCall ==
  [pc |-> "idle", cities |-> <<>>, i |-> 1, city |-> ZeroCity, err |-> FALSE,
   tmpMapOfCities |-> <<>>, batch |-> <<>>, addedCities |-> <<>>, ranged |-> {},
   asked |-> <<>>, resolved |-> {}, geoFailed |-> FALSE, sent |-> FALSE,
   map0 |-> <<>>, table0 |-> EmptyBag, ret |-> "none"]

Inputs == SeqsUpTo(Names, MaxInput)
ConcInputs == SeqsUpTo(Names, MaxConcInput)

\* Lines 123-135: PrepareBatch, the empty tmpMapOfCities and addedCities.
addCitiesToDB_Begin(h, cities) ==
  /\ Alive
  /\ call[h].pc \in {"idle", "done"}
  /\ nCalls < MaxCalls
  /\ nGeo + Len(cities) <= MaxGeoCalls
  /\ nCalls' = nCalls + 1
  /\ nGeo' = nGeo + Len(cities)
  /\ \E prepared \in BOOLEAN :
       call' = [call EXCEPT ![h] =
                 [IdleCall EXCEPT !.cities = cities,
                                  !.map0 = mapOfCities,
                                  !.table0 = citiesTable,
                                  !.pc = IF prepared THEN "loop" ELSE "done",
                                  !.ret = IF prepared THEN "none" ELSE "err"]]
  /\ UNCHANGED <<codec, reqVars, mapOfCities, citiesTable, crashed, collVars, dispVars>>

AskProvider(h) ==
  call[h].pc = "loop" /\ call[h].i <= Len(call[h].cities)

\* addCitiesToDB_Geocode with the registry consulted first: a registered name
\* is taken from mapOfCities and the provider is not asked.
addCitiesToDB_Geocode_SkipKnown(h) ==
  LET name == call[h].cities[call[h].i] IN
  /\ Alive
  /\ AskProvider(h)
  /\ IF name \in DOMAIN mapOfCities
       THEN call' = [call EXCEPT ![h].city = mapOfCities[name], ![h].err = FALSE,
                                 ![h].pc = "lookup"]
       ELSE \E r \in getCoordinates(name) :
              call' = [call EXCEPT ![h].city = r.city,
                                   ![h].err = r.err,
                                   ![h].asked = Append(@, name),
                                   ![h].resolved = IF r.err THEN @ ELSE @ \cup {r.city.Name},
                                   ![h].geoFailed = @ \/ r.err,
                                   ![h].pc = "lookup"]
  /\ UNCHANGED <<codec, reqVars, mapOfCities, citiesTable, crashed, nCalls, nGeo, collVars, dispVars>>

\* addCitiesToDB_Geocode with the input deduplicated: a name this call has
\* asked for already is passed over.
addCitiesToDB_Geocode_SkipRepeated(h) ==
  LET name == call[h].cities[call[h].i] IN
  /\ Alive
  /\ AskProvider(h)
  /\ IF name \in Range(call[h].asked)
       THEN call' = [call EXCEPT ![h].i = @ + 1]
       ELSE \E r \in getCoordinates(name) :
              call' = [call EXCEPT ![h].city = r.city,
                                   ![h].err = r.err,
                                   ![h].asked = Append(@, name),
                                   ![h].resolved = IF r.err THEN @ ELSE @ \cup {r.city.Name},
                                   ![h].geoFailed = @ \/ r.err,
                                   ![h].pc = "lookup"]
  /\ UNCHANGED <<codec, reqVars, mapOfCities, citiesTable, crashed, nCalls, nGeo, collVars, dispVars>>

\* Line 138: the provider is asked for cities[i], whatever the registry holds.
addCitiesToDB_Geocode(h) ==
  /\ Alive
  /\ AskProvider(h)
  /\ \E r \in getCoordinates(call[h].cities[call[h].i]) :
       call' = [call EXCEPT ![h].city = r.city,
                            ![h].err = r.err,
                            ![h].asked = Append(@, call[h].cities[call[h].i]),
                            ![h].resolved = IF r.err THEN @ ELSE @ \cup {r.city.Name},
                            ![h].geoFailed = @ \/ r.err,
                            ![h].pc = "lookup"]
  /\ UNCHANGED <<codec, reqVars, mapOfCities, citiesTable, crashed, nCalls, nGeo, collVars, dispVars>>

\* Lines 139-150: the registry is read under city.Name, and only then is err
\* looked at; a new city goes to tmpMapOfCities and to the batch.
addCitiesToDB_Lookup(h) ==
  LET c == call[h] IN
  /\ Alive
  /\ c.pc = "lookup"
  /\ IF c.city.Name \in DOMAIN mapOfCities
       THEN call' = [call EXCEPT ![h].addedCities = Append(@, c.city.Name),
                                 ![h].i = @ + 1,
                                 ![h].pc = "loop"]
       ELSE IF c.err
         THEN call' = [call EXCEPT ![h].pc = "done", ![h].ret = "err"]
         ELSE \E appended \in BOOLEAN :
                IF appended
                  THEN call' = [call EXCEPT
                         ![h].tmpMapOfCities =
                            [n \in DOMAIN @ \cup {c.city.Name} |->
                               IF n = c.city.Name THEN c.city ELSE @[n]],
                         ![h].batch = Append(@, <<c.city.Name, c.city.Co>>),
                         ![h].i = @ + 1,
                         ![h].pc = "loop"]
                  ELSE call' = [call EXCEPT ![h].pc = "done", ![h].ret = "err"]
  /\ UNCHANGED <<codec, reqVars, mapOfCities, citiesTable, crashed, nCalls, nGeo, collVars, dispVars>>

RECURSIVE BagOfSeq(_)
BagOfSeq(s) == IF s = <<>> THEN EmptyBag ELSE SetToBag({Head(s)}) (+) BagOfSeq(Tail(s))

\* addCitiesToDB_Send with the registry written before the batch is sent: a
\* failed send leaves the new cities in mapOfCities.
addCitiesToDB_Send_CommitFirst(h) ==
  LET c == call[h]
      merged == [n \in DOMAIN mapOfCities \cup DOMAIN c.tmpMapOfCities |->
                   IF n \in DOMAIN c.tmpMapOfCities THEN c.tmpMapOfCities[n]
                                                     ELSE mapOfCities[n]]
  IN
  /\ Alive
  /\ c.pc = "loop"
  /\ c.i > Len(c.cities)
  /\ mapOfCities' = merged
  /\ \E ok \in BOOLEAN :
       IF ok
         THEN /\ citiesTable' = citiesTable (+) BagOfSeq(c.batch)
              /\ call' = [call EXCEPT ![h].sent = TRUE, ![h].pc = "done", ![h].ret = "ok"]
         ELSE /\ citiesTable' = citiesTable
              /\ call' = [call EXCEPT ![h].pc = "done", ![h].ret = "err"]
  /\ UNCHANGED <<codec, reqVars, crashed, nCalls, nGeo, collVars, dispVars>>

\* Lines 153-155: batch.Send writes every appended row, or none and the call fails.
addCitiesToDB_Send(h) ==
  LET c == call[h] IN
  /\ Alive
  /\ c.pc = "loop"
  /\ c.i > Len(c.cities)
  /\ \E ok \in BOOLEAN :
       IF ok
         THEN /\ citiesTable' = citiesTable (+) BagOfSeq(c.batch)
              /\ call' = [call EXCEPT ![h].sent = TRUE,
                                      ![h].pc = IF DOMAIN c.tmpMapOfCities = {}
                                                  THEN "done" ELSE "commit",
                                      ![h].ret = IF DOMAIN c.tmpMapOfCities = {}
                                                  THEN "ok" ELSE "none"]
         ELSE /\ citiesTable' = citiesTable
              /\ call' = [call EXCEPT ![h].pc = "done", ![h].ret = "err"]
  /\ UNCHANGED <<codec, reqVars, mapOfCities, crashed, nCalls, nGeo, collVars, dispVars>>

\* Line 158: mapOfCities[k] = v, whether or not the key k is there by now.
StoreCity(m, k, v) ==
  [n \in DOMAIN m \cup {k} |-> IF n = k THEN v ELSE m[n]]

\* Lines 157-163: one iteration of range tmpMapOfCities (the order is the map's).
addCitiesToDB_Commit(h) ==
  LET c == call[h]
      left == DOMAIN c.tmpMapOfCities \ c.ranged
  IN
  /\ Alive
  /\ c.pc = "commit"
  /\ \E k \in left :
       /\ mapOfCities' = StoreCity(mapOfCities, k, c.tmpMapOfCities[k])
       /\ call' = [call EXCEPT ![h].addedCities = Append(@, k),
                               ![h].ranged = @ \cup {k},
                               ![h].pc = IF left = {k} THEN "done" ELSE "commit",
                               ![h].ret = IF left = {k} THEN "ok" ELSE "none"]
  /\ UNCHANGED <<codec, reqVars, citiesTable, crashed, nCalls, nGeo, collVars, dispVars>>

\* --------------------------------------------------------- insertWeatherData
(* startPeriodicDataCollection calls insertWeatherData(mapOfCities) on every  *)
(* tick: the argument is the registry itself (a Go map is a reference), so    *)
(* range cities reads the live map.  An entry created while the range runs    *)
(* may be produced or skipped (the Go specification of range over a map).     *)
IdleColl ==
  [pc |-> "idle", tick |-> 0, atStart |-> {}, visited |-> {}, cityName |-> NoName,
   city |-> ZeroCity, batch |-> <<>>, fetched |-> {}, fetchFailed |-> FALSE, ret |-> "none",
   prev |-> "none"]

\* insertWeatherData_Begin in a loop that ends at the first tick that failed.
insertWeatherData_Begin_StopOnError ==
  /\ Alive
  /\ coll.pc = "idle"
  /\ coll.ret # "err"
  /\ coll.tick < MaxTicks
  /\ \E prepared \in BOOLEAN :
       coll' = [IdleColl EXCEPT !.tick = coll.tick + 1,
                                !.prev = coll.ret,
                                !.atStart = DOMAIN mapOfCities,
                                !.pc = IF prepared THEN "range" ELSE "idle",
                                !.ret = IF prepared THEN "none" ELSE "err"]
  /\ UNCHANGED <<codec, reqVars, mapOfCities, citiesTable, crashed, call, nCalls, nGeo, metrics, dispVars>>

\* Lines 210-215 and 166-173: a tick, whatever the tick before it returned,
\* starts insertWeatherData with locals of its own; PrepareBatch.
insertWeatherData_Begin ==
  /\ Alive
  /\ coll.pc = "idle"
  /\ coll.tick < MaxTicks
  /\ \E prepared \in BOOLEAN :
       coll' = [IdleColl EXCEPT !.tick = coll.tick + 1,
                                !.prev = coll.ret,
                                !.atStart = DOMAIN mapOfCities,
                                !.pc = IF prepared THEN "range" ELSE "idle",
                                !.ret = IF prepared THEN "none" ELSE "err"]
  /\ UNCHANGED <<codec, reqVars, mapOfCities, citiesTable, crashed, call, nCalls, nGeo, metrics, dispVars>>

\* Line 175: range cities produces the next entry, or ends.
insertWeatherData_Range ==
  /\ Alive
  /\ coll.pc = "range"
  /\ \/ \E k \in DOMAIN mapOfCities \ coll.visited :
          coll' = [coll EXCEPT !.cityName = k, !.city = mapOfCities[k],
                               !.visited = @ \cup {k}, !.pc = "fetch"]
     \/ /\ coll.atStart \subseteq coll.visited
        /\ coll' = [coll EXCEPT !.pc = "send"]
  /\ UNCHANGED <<codec, reqVars, mapOfCities, citiesTable, crashed, call, nCalls, nGeo, metrics, dispVars>>

\* The rows batch.Send writes for the samples appended in the tick.
Samples(tick, batch) == BagOfSeq([k \in 1..Len(batch) |-> <<tick, batch[k]>>])

\* FetchFailed with the samples appended so far sent before the return.
FetchFailed_Flush ==
  /\ coll' = [coll EXCEPT !.pc = "idle", !.ret = "err", !.fetchFailed = TRUE, !.batch = <<>>]
  /\ metrics' = metrics (+) Samples(coll.tick, coll.batch)

\* Lines 177-179: getWeather failed: insertWeatherData returns the error; the
\* batch, never sent, is dropped with the function's locals.
FetchFailed ==
  /\ coll' = [coll EXCEPT !.pc = "idle", !.ret = "err", !.fetchFailed = TRUE, !.batch = <<>>]
  /\ metrics' = metrics

\* insertWeatherData_Fetch with every sample sent as soon as it is appended.
insertWeatherData_Fetch_SendEach ==
  /\ Alive
  /\ coll.pc = "fetch"
  /\ \/ FetchFailed
     \/ /\ coll' = [coll EXCEPT !.fetched = @ \cup {coll.cityName}, !.pc = "range"]
        /\ metrics' = metrics (+) Samples(coll.tick, <<coll.cityName>>)
  /\ UNCHANGED <<codec, reqVars, mapOfCities, citiesTable, crashed, call, nCalls, nGeo, dispVars>>

\* Lines 176-193: getWeather for the entry, then batch.Append of its sample.
insertWeatherData_Fetch ==
  /\ Alive
  /\ coll.pc = "fetch"
  /\ \/ FetchFailed
     \/ /\ \E appended \in BOOLEAN :
             IF appended
               THEN coll' = [coll EXCEPT !.batch = Append(@, coll.cityName),
                                         !.fetched = @ \cup {coll.cityName},
                                         !.pc = "range"]
               ELSE coll' = [coll EXCEPT !.fetched = @ \cup {coll.cityName},
                                         !.pc = "idle", !.ret = "err", !.batch = <<>>]
        /\ metrics' = metrics
  /\ UNCHANGED <<codec, reqVars, mapOfCities, citiesTable, crashed, call, nCalls, nGeo, dispVars>>

\* Lines 196-200: batch.Send writes every appended sample, or none.
insertWeatherData_Send ==
  /\ Alive
  /\ coll.pc = "send"
  /\ \E ok \in BOOLEAN :
       IF ok
         THEN /\ metrics' = metrics (+) Samples(coll.tick, coll.batch)
              /\ coll' = [coll EXCEPT !.pc = "idle", !.ret = "ok"]
         ELSE /\ metrics' = metrics
              /\ coll' = [coll EXCEPT !.pc = "idle", !.ret = "err", !.batch = <<>>]
  /\ UNCHANGED <<codec, reqVars, mapOfCities, citiesTable, crashed, call, nCalls, nGeo, dispVars>>

\* --------------------------------------------------------- getWeatherForecast
ForecastLen == 24                    \* the upper index of List[0:24]

\* One element of the provider's list for the city, and the zero forecastAPIResp.
Point(city, k) == [of |-> city.Name, at |-> city.Co, h |-> k]
ZeroPoint == [of |-> NoName, at |-> ZeroCoords, h |-> 0]

(* What the HTTP call and json.Unmarshal leave behind: no decoded response     *)
(* (transport error, non-200, read or decode error), or cnt, the length of     *)
(* List and the capacity of its backing array, which is the decoder's growth   *)
(* policy's and at least the length.                                           *)
ForecastResps ==
  { [decoded |-> FALSE, cnt |-> 0,  len |-> 0,  cap |-> 0],
    [decoded |-> TRUE,  cnt |-> 0,  len |-> 0,  cap |-> 0],
    [decoded |-> TRUE,  cnt |-> 0,  len |-> 30, cap |-> 42],
    [decoded |-> TRUE,  cnt |-> 2,  len |-> 2,  cap |-> 4],
    [decoded |-> TRUE,  cnt |-> 20, len |-> 20, cap |-> 28],
    [decoded |-> TRUE,  cnt |-> 24, len |-> 24, cap |-> 28],
    [decoded |-> TRUE,  cnt |-> 30, len |-> 30, cap |-> 42] }

\* Lines 556-593.  List[0:24] panics when 24 exceeds the capacity, and reaches
\* into the zeroed elements between the length and the capacity otherwise.
getWeatherForecast(city, resp) ==
  IF ~resp.decoded \/ resp.cnt = 0 \/ resp.len = 0
    THEN [kind |-> "err", forecast |-> <<>>]
    ELSE IF ForecastLen > resp.cap
      THEN [kind |-> "panic", forecast |-> <<>>]
      ELSE [kind |-> "ok",
            forecast |-> [k \in 1..ForecastLen |->
                            IF k <= resp.len THEN Point(city, k) ELSE ZeroPoint]]

\* ------------------------------------------------------------ createEmailBody
\* Lines 378-399: one section per element of forecastParts, under cities[i].
RECURSIVE Sections(_, _, _)
Sections(forecastParts, cities, i) ==
  IF i > Len(forecastParts) THEN <<>>
  ELSE IF Len(forecastParts[i]) = 0 THEN Sections(forecastParts, cities, i + 1)
  ELSE <<[header |-> cities[i], entries |-> forecastParts[i]]>>
         \o Sections(forecastParts, cities, i + 1)

createEmailBody(forecastParts, cities) == Sections(forecastParts, cities, 1)

\* Lines 308-314.
EmailTask(email, body) == [To |-> email, Type |-> "daily_forecast", Body |-> body]

\* ---------------------------------------------------------- sendWeatherEmails
IdleDisp ==
  [pc |-> "idle", tick |-> 0, rows |-> <<>>, u |-> 1, email |-> "", cities |-> <<>>,
   j |-> 1, cityData |-> ZeroCity, forecastParts |-> <<>>,
   mapOfCityWeatherForecast |-> <<>>,
   got |-> <<>>,        \* the cities whose series forecastParts holds, in its order
   fetches |-> <<>>,    \* the provider calls of this tick: [city, ok, for (the user)]
   done |-> <<>>,       \* the users this tick is through with: [email, cities, got, outcome]
   ret |-> "none"]

Orders(S) ==
  {s \in SeqsUpTo(S, Cardinality(S)) : Len(s) = Cardinality(S) /\ Range(s) = S}

\* sendWeatherEmails_Begin with the cache a package variable, kept from tick
\* to tick.
sendWeatherEmails_Begin_KeepCache ==
  /\ Alive
  /\ disp.pc = "idle"
  /\ disp.tick < MaxTicks
  /\ disp' = [IdleDisp EXCEPT !.tick = disp.tick + 1, !.pc = "log",
                              !.mapOfCityWeatherForecast = disp.mapOfCityWeatherForecast]
  /\ UNCHANGED <<codec, reqVars, mapOfCities, citiesTable, crashed, call, nCalls, nGeo, collVars,
                 users, queue>>

\* Lines 337-338 and 262: a tick starts sendWeatherEmails, whose cache is a
\* local made anew by every call.
sendWeatherEmails_Begin ==
  /\ Alive
  /\ disp.pc = "idle"
  /\ disp.tick < MaxTicks
  /\ disp' = [IdleDisp EXCEPT !.tick = disp.tick + 1, !.pc = "log"]
  /\ UNCHANGED <<codec, reqVars, mapOfCities, citiesTable, crashed, call, nCalls, nGeo, collVars,
                 users, queue>>

\* Lines 250-253: range mapOfCities, for the log.
sendWeatherEmails_Log ==
  /\ Alive
  /\ disp.pc = "log"
  /\ disp' = [disp EXCEPT !.pc = "query"]
  /\ UNCHANGED <<codec, reqVars, mapOfCities, citiesTable, crashed, call, nCalls, nGeo, collVars,
                 users, queue>>

\* Lines 255-262: SELECT email, cities FROM users (no ORDER BY), the empty cache.
sendWeatherEmails_Query ==
  /\ Alive
  /\ disp.pc = "query"
  /\ \/ \E order \in Orders(DOMAIN users) :
          disp' = [disp EXCEPT
                     !.rows = [k \in 1..Len(order) |->
                                 [email |-> order[k], cities |-> users[order[k]]]],
                     !.u = 1, !.pc = "row"]
     \/ disp' = [disp EXCEPT !.pc = "idle", !.ret = "err"]
  /\ UNCHANGED <<codec, reqVars, mapOfCities, citiesTable, crashed, call, nCalls, nGeo, collVars,
                 users, queue>>

\* Lines 266-276: rows.Next and rows.Scan; a row that does not scan is passed over.
sendWeatherEmails_Row ==
  /\ Alive
  /\ disp.pc = "row"
  /\ IF disp.u > Len(disp.rows)
       THEN disp' = [disp EXCEPT !.pc = "idle", !.ret = "ok"]
       ELSE \E scanned \in BOOLEAN :
              IF scanned
                THEN disp' = [disp EXCEPT !.email = disp.rows[disp.u].email,
                                          !.cities = disp.rows[disp.u].cities,
                                          !.j = 1, !.forecastParts = <<>>, !.got = <<>>,
                                          !.pc = "city"]
                ELSE disp' = [disp EXCEPT !.u = @ + 1]
  /\ UNCHANGED <<codec, reqVars, mapOfCities, citiesTable, crashed, call, nCalls, nGeo, collVars,
                 users, queue>>

\* CacheHit with the cache never consulted.
CacheHit_Never(city) == FALSE

\* Line 279: val, ok := mapOfCityWeatherForecast[city].
CacheHit(city) == city \in DOMAIN disp.mapOfCityWeatherForecast

\* Lines 278-284 and 292-294: the cached series is reused; on a miss the
\* registry is read, and a city it does not hold is passed over.
sendWeatherEmails_City ==
  LET city == disp.cities[disp.j] IN
  /\ Alive
  /\ disp.pc = "city"
  /\ disp.j <= Len(disp.cities)
  /\ IF CacheHit(city)
       THEN disp' = [disp EXCEPT
                       !.forecastParts = Append(@, disp.mapOfCityWeatherForecast[city]),
                       !.got = Append(@, city),
                       !.j = @ + 1]
       ELSE IF city \in DOMAIN mapOfCities
         THEN disp' = [disp EXCEPT !.cityData = mapOfCities[city], !.pc = "fetch"]
         ELSE disp' = [disp EXCEPT !.j = @ + 1]
  /\ UNCHANGED <<codec, reqVars, mapOfCities, citiesTable, crashed, call, nCalls, nGeo, collVars,
                 users, queue>>

\* ForecastFailed with the failure remembered: the city is cached with no series.
ForecastFailed_Memoized(city) ==
  [disp EXCEPT !.fetches = Append(@, [city |-> city, ok |-> FALSE, for |-> disp.email]),
               !.mapOfCityWeatherForecast =
                  [n \in DOMAIN @ \cup {city} |-> IF n = city THEN <<>> ELSE @[n]],
               !.j = @ + 1, !.pc = "city"]

\* Lines 286-289: the error is logged and the loop continues with the next
\* city; nothing is put into mapOfCityWeatherForecast.
ForecastFailed(city) ==
  [disp EXCEPT !.fetches = Append(@, [city |-> city, ok |-> FALSE, for |-> disp.email]),
               !.j = @ + 1, !.pc = "city"]

\* Lines 285-291: getWeatherForecast; an error passes the city over, a
\* series is cached and appended.  The panic of List[0:24] is recovered by
\* nobody in this goroutine and ends the process.
sendWeatherEmails_Fetch ==
  LET city == disp.cities[disp.j] IN
  /\ Alive
  /\ disp.pc = "fetch"
  /\ \E resp \in ForecastResps :
       LET r == getWeatherForecast(disp.cityData, resp) IN
       CASE r.kind = "err" ->
              /\ disp' = ForecastFailed(city)
              /\ crashed' = crashed
         [] r.kind = "panic" ->
              /\ disp' = [disp EXCEPT !.fetches =
                            Append(@, [city |-> city, ok |-> FALSE, for |-> disp.email])]
              /\ crashed' = "panic"
         [] r.kind = "ok" ->
              /\ disp' = [disp EXCEPT
                   !.fetches = Append(@, [city |-> city, ok |-> TRUE, for |-> disp.email]),
                   !.mapOfCityWeatherForecast =
                      [n \in DOMAIN @ \cup {city} |-> IF n = city THEN r.forecast ELSE @[n]],
                   !.forecastParts = Append(@, r.forecast),
                   !.got = Append(@, city),
                   !.j = @ + 1, !.pc = "city"]
              /\ crashed' = crashed
  /\ UNCHANGED <<codec, reqVars, mapOfCities, citiesTable, call, nCalls, nGeo, collVars, users, queue>>

\* NoForecasts with the check left out.
NoForecasts_Never == FALSE

\* Line 297: len(forecastParts) == 0.
NoForecasts == Len(disp.forecastParts) = 0

\* Through with a failed publish tried again: the user's row is not left.
Through_Retry(outcome) ==
  [disp EXCEPT !.done = Append(@, [email |-> disp.email, cities |-> disp.cities,
                                   got |-> disp.got, outcome |-> outcome]),
               !.u = IF outcome = "dropped" THEN @ ELSE @ + 1,
               !.pc = IF outcome = "dropped" THEN "city" ELSE "row"]

\* Lines 299, 321 (continue) and 325: the loop goes to rows.Next().
Through(outcome) ==
  [disp EXCEPT !.done = Append(@, [email |-> disp.email, cities |-> disp.cities,
                                   got |-> disp.got, outcome |-> outcome]),
               !.u = @ + 1, !.pc = "row"]

\* Lines 297-325, after the last city of the user: nothing to send and on to
\* the next row, or the body, the task and publishEmailTask (part_000 85-110),
\* whose failure is logged and followed by the next row as well.
sendWeatherEmails_Publish ==
  /\ Alive
  /\ disp.pc = "city"
  /\ disp.j > Len(disp.cities)
  /\ IF NoForecasts
       THEN /\ disp' = Through("skipped")
            /\ queue' = queue
       ELSE \E published \in BOOLEAN :
              IF published
                THEN /\ disp' = Through("published")
                     /\ queue' = Append(queue,
                          [tick |-> disp.tick, cities |-> disp.cities,
                           task |-> EmailTask(disp.email,
                                      createEmailBody(disp.forecastParts, disp.cities))])
                ELSE /\ disp' = Through("dropped")
                     /\ queue' = queue
  /\ UNCHANGED <<codec, reqVars, mapOfCities, citiesTable, crashed, call, nCalls, nGeo, collVars, users>>

\* ------------------------------------------------------------------ createUser
IdleUser ==
  [pc |-> "idle", op |-> "none", id |-> 0, email |-> "", password |-> FALSE, cities |-> <<>>,
   ret |-> "none",        \* "ok" (nil), "exists" (errUserExist) or "err" (any other error)
   existed |-> FALSE,     \* the SELECT of line 77 found the email
   inserted |-> FALSE,    \* the INSERT of line 110 succeeded
   users0 |-> <<>>, map0 |-> <<>>]

\* The requests begun so far.
Started == Len(created) + Cardinality({h \in Handlers : user[h].pc \notin {"idle", "done"}})

\* return: the call's result, as the handler gets it.
Returned(h, ret, inserted) ==
  /\ user' = [user EXCEPT ![h].pc = "done", ![h].ret = ret, ![h].inserted = inserted]
  /\ created' = Append(created, [id |-> user[h].id, email |-> user[h].email,
                                 ret |-> ret, inserted |-> inserted, op |-> "createUser"])

\* Lines 69-74: the request body is decoded into userData.
createUser_Begin(h, email, password, cities) ==
  /\ Alive
  /\ user[h].pc \in {"idle", "done"}
  /\ call[h].pc \in {"idle", "done"}
  /\ Started < MaxRequests
  /\ call' = [call EXCEPT ![h] = IdleCall]
  /\ \E decoded \in BOOLEAN :
       IF decoded
         THEN /\ user' = [user EXCEPT ![h] =
                          [IdleUser EXCEPT !.pc = "select", !.op = "createUser",
                                           !.id = Started + 1,
                                           !.email = email, !.password = password,
                                           !.cities = cities,
                                           !.users0 = users, !.map0 = mapOfCities]]
              /\ created' = created
         ELSE /\ user' = [user EXCEPT ![h] =
                          [IdleUser EXCEPT !.pc = "done", !.op = "createUser",
                                           !.id = Started + 1, !.ret = "err",
                                           !.users0 = users, !.map0 = mapOfCities]]
              /\ created' = Append(created, [id |-> Started + 1, email |-> "",
                                             ret |-> "err", inserted |-> FALSE,
                                             op |-> "createUser"])
  /\ UNCHANGED <<codec, mapOfCities, citiesTable, crashed, nCalls, nGeo, collVars, dispVars, welcome>>

\* createUser_Select without the test of lines 78-80: an email the table
\* holds goes on like a new one.
createUser_Select_NoExistsCheck(h) ==
  LET u == user[h] IN
  /\ Alive
  /\ u.pc = "select"
  /\ \E selected \in BOOLEAN, hashed \in BOOLEAN :
       IF ~selected THEN Returned(h, "err", FALSE)
       ELSE IF u.email = "" \/ ~u.password THEN Returned(h, "err", FALSE)
       ELSE IF ~hashed THEN Returned(h, "err", FALSE)
       ELSE /\ user' = [user EXCEPT ![h].pc = "resolve",
                                    ![h].existed = u.email \in DOMAIN users]
            /\ created' = created
  /\ UNCHANGED <<codec, mapOfCities, citiesTable, crashed, call, nCalls, nGeo, collVars, dispVars,
                 welcome>>

\* Lines 76-103: SELECT email FROM users WHERE email=$1: a row returns
\* errUserExist, an error other than sql.ErrNoRows returns it wrapped; then
\* the empty email or password, and bcrypt.GenerateFromPassword.
createUser_Select(h) ==
  LET u == user[h] IN
  /\ Alive
  /\ u.pc = "select"
  /\ \E selected \in BOOLEAN, hashed \in BOOLEAN :
       IF ~selected THEN Returned(h, "err", FALSE)
       ELSE IF u.email \in DOMAIN users
         THEN /\ user' = [user EXCEPT ![h].pc = "done", ![h].ret = "exists",
                                      ![h].existed = TRUE]
              /\ created' = Append(created, [id |-> u.id, email |-> u.email,
                                             ret |-> "exists", inserted |-> FALSE,
                                             op |-> "createUser"])
       ELSE IF u.email = "" \/ ~u.password THEN Returned(h, "err", FALSE)
       ELSE IF ~hashed THEN Returned(h, "err", FALSE)
       ELSE /\ user' = [user EXCEPT ![h].pc = "resolve"]
            /\ created' = created
  /\ UNCHANGED <<codec, mapOfCities, citiesTable, crashed, call, nCalls, nGeo, collVars, dispVars,
                 welcome>>

\* Line 105: addCitiesToDB(userData.Cities) is called.
createUser_Resolve(h) ==
  /\ user[h].pc = "resolve" /\ user[h].op = "createUser"
  /\ call[h].pc = "idle"
  /\ addCitiesToDB_Begin(h, user[h].cities)

\* Lines 354-360.
WelcomeTask(email) == [To |-> email, Type |-> "welcome", Body |-> <<>>]

\* createUser_Insert with the goroutine of line 119 started before the
\* result of the INSERT is looked at.
createUser_Insert_WelcomeFirst(h) ==
  LET u == user[h] IN
  /\ Alive
  /\ u.pc = "resolve" /\ u.op = "createUser"
  /\ call[h].pc = "done"
  /\ IF call[h].ret = "err"
       THEN /\ Returned(h, "err", FALSE)
            /\ UNCHANGED <<codec, users, welcome>>
       ELSE /\ welcome' = Append(welcome, [email |-> u.email, id |-> u.id, state |-> "pending"])
            /\ \E ok \in BOOLEAN :
                 IF ok /\ u.email \notin DOMAIN users
                   THEN /\ users' = [e \in DOMAIN users \cup {u.email} |->
                                       IF e = u.email THEN call[h].addedCities ELSE users[e]]
                        /\ Returned(h, "ok", TRUE)
                   ELSE /\ users' = users
                        /\ Returned(h, "err", FALSE)
  /\ UNCHANGED <<codec, mapOfCities, citiesTable, crashed, call, nCalls, nGeo, collVars, disp, queue>>

\* Lines 106-127: the error of addCitiesToDB is returned; INSERT INTO users
\* with the list addCitiesToDB returned (it fails on an email the table
\* holds by now: email is the primary key); then the goroutine that
\* publishes the welcome task is started and nil is returned.
createUser_Insert(h) ==
  LET u == user[h] IN
  /\ Alive
  /\ u.pc = "resolve" /\ u.op = "createUser"
  /\ call[h].pc = "done"
  /\ IF call[h].ret = "err"
       THEN /\ Returned(h, "err", FALSE)
            /\ UNCHANGED <<codec, users, welcome>>
       ELSE \E ok \in BOOLEAN :
              IF ok /\ u.email \notin DOMAIN users
                THEN /\ users' = [e \in DOMAIN users \cup {u.email} |->
                                    IF e = u.email THEN call[h].addedCities ELSE users[e]]
                     /\ welcome' = Append(welcome, [email |-> u.email, id |-> u.id,
                                                    state |-> "pending"])
                     /\ Returned(h, "ok", TRUE)
                ELSE /\ UNCHANGED <<codec, users, welcome>>
                     /\ Returned(h, "err", FALSE)
  /\ UNCHANGED <<codec, mapOfCities, citiesTable, crashed, call, nCalls, nGeo, collVars, disp, queue>>

\* publishWelcomeEmail_Run with the caller waiting for the publish and
\* returning its error.
publishWelcomeEmail_Run_Awaited(k) ==
  /\ Alive
  /\ k \in 1..Len(welcome)
  /\ welcome[k].state = "pending"
  /\ \E published \in BOOLEAN :
       IF published
         THEN /\ queue' = Append(queue, [tick |-> 0, cities |-> <<>>,
                                         task |-> WelcomeTask(welcome[k].email)])
              /\ welcome' = [welcome EXCEPT ![k].state = "published"]
              /\ created' = created
         ELSE /\ queue' = queue
              /\ welcome' = [welcome EXCEPT ![k].state = "lost"]
              /\ created' = [c \in 1..Len(created) |->
                               IF created[c].id = welcome[k].id
                                 THEN [created[c] EXCEPT !.ret = "err"] ELSE created[c]]
  /\ UNCHANGED <<codec, mapOfCities, citiesTable, crashed, call, nCalls, nGeo, collVars, disp,
                 users, user>>

\* Lines 119-124 and 347-370: the goroutine calls publishWelcomeEmail, which
\* publishes the task under a 5s context; an error (no channel, marshal,
\* publish, timeout) is logged by the goroutine and nothing else happens.
publishWelcomeEmail_Run(k) ==
  /\ Alive
  /\ k \in 1..Len(welcome)
  /\ welcome[k].state = "pending"
  /\ \E published \in BOOLEAN :
       IF published
         THEN /\ queue' = Append(queue, [tick |-> 0, cities |-> <<>>,
                                         task |-> WelcomeTask(welcome[k].email)])
              /\ welcome' = [welcome EXCEPT ![k].state = "published"]
         ELSE /\ queue' = queue
              /\ welcome' = [welcome EXCEPT ![k].state = "lost"]
  /\ UNCHANGED <<codec, mapOfCities, citiesTable, crashed, call, nCalls, nGeo, collVars, disp,
                 users, user, created>>

\* ------------------------------------- changeUserData, getUserData, deleteUser
\* return of one of the three: the call's result, as the handler gets it.
Answered(h, ret) ==
  /\ user' = [user EXCEPT ![h].pc = "done", ![h].ret = ret]
  /\ created' = Append(created, [id |-> user[h].id, email |-> user[h].email,
                                 ret |-> ret, inserted |-> FALSE, op |-> user[h].op])

\* Lines 130-140, 175-185 and 211-221: the body is decoded; an empty email
\* or password is refused.
Request_Begin(h, op, email, password, cities) ==
  /\ Alive
  /\ user[h].pc \in {"idle", "done"}
  /\ call[h].pc \in {"idle", "done"}
  /\ Started < MaxRequests
  /\ call' = [call EXCEPT ![h] = IdleCall]
  /\ \E decoded \in BOOLEAN :
       IF decoded /\ email # "" /\ password
         THEN /\ user' = [user EXCEPT ![h] =
                          [IdleUser EXCEPT !.pc = "auth", !.op = op, !.id = Started + 1,
                                           !.email = email, !.password = password,
                                           !.cities = cities,
                                           !.users0 = users, !.map0 = mapOfCities]]
              /\ created' = created
         ELSE /\ user' = [user EXCEPT ![h] =
                          [IdleUser EXCEPT !.pc = "done", !.op = op, !.id = Started + 1,
                                           !.ret = "err",
                                           !.users0 = users, !.map0 = mapOfCities]]
              /\ created' = Append(created, [id |-> Started + 1, email |-> "", ret |-> "err",
                                             inserted |-> FALSE, op |-> op])
  /\ UNCHANGED <<codec, mapOfCities, citiesTable, crashed, nCalls, nGeo, collVars, dispVars, welcome>>

\* Lines 142-156: SELECT password FROM users WHERE email=$1 and the bcrypt
\* comparison; no row, an error or another password returns an error.
changeUserData_Auth(h) ==
  LET u == user[h] IN
  /\ Alive
  /\ u.pc = "auth" /\ u.op = "changeUserData"
  /\ \E selected \in BOOLEAN, matches \in BOOLEAN :
       IF u.email \in DOMAIN users /\ selected /\ matches
         THEN /\ user' = [user EXCEPT ![h].pc = "resolve"]
              /\ created' = created
         ELSE Answered(h, "err")
  /\ UNCHANGED <<codec, mapOfCities, citiesTable, crashed, call, nCalls, nGeo, collVars, dispVars,
                 welcome>>

\* Line 158: addCitiesToDB(req.Cities) is called.
changeUserData_Resolve(h) ==
  /\ user[h].pc = "resolve" /\ user[h].op = "changeUserData"
  /\ call[h].pc = "idle"
  /\ addCitiesToDB_Begin(h, user[h].cities)

\* changeUserData_Update storing the list of the request, not the list
\* addCitiesToDB returned.
changeUserData_Update_RequestList(h) ==
  LET u == user[h] IN
  /\ Alive
  /\ u.pc = "resolve" /\ u.op = "changeUserData"
  /\ call[h].pc = "done"
  /\ \E ok \in BOOLEAN :
       IF ok
         THEN /\ users' = IF u.email \in DOMAIN users
                            THEN [users EXCEPT ![u.email] = u.cities] ELSE users
              /\ Answered(h, "ok")
         ELSE /\ users' = users
              /\ Answered(h, "err")
  /\ UNCHANGED <<codec, mapOfCities, citiesTable, crashed, call, nCalls, nGeo, collVars, disp, queue,
                 welcome>>

\* Lines 160-172: the error of addCitiesToDB is returned; UPDATE users SET
\* cities = (the list addCitiesToDB returned) WHERE email = $2, which changes
\* no row when the user has been deleted meanwhile and is no error then.
changeUserData_Update(h) ==
  LET u == user[h] IN
  /\ Alive
  /\ u.pc = "resolve" /\ u.op = "changeUserData"
  /\ call[h].pc = "done"
  /\ IF call[h].ret = "err"
       THEN /\ users' = users
            /\ Answered(h, "err")
       ELSE \E ok \in BOOLEAN :
              IF ok
                THEN /\ users' = IF u.email \in DOMAIN users
                                   THEN [users EXCEPT ![u.email] = call[h].addedCities]
                                   ELSE users
                     /\ Answered(h, "ok")
                ELSE /\ users' = users
                     /\ Answered(h, "err")
  /\ UNCHANGED <<codec, mapOfCities, citiesTable, crashed, call, nCalls, nGeo, collVars, disp, queue,
                 welcome>>

\* Lines 187-208: SELECT password, cities; the cities of the row are returned.
getUserData_Auth(h) ==
  LET u == user[h] IN
  /\ Alive
  /\ u.pc = "auth" /\ u.op = "getUserData"
  /\ \E selected \in BOOLEAN, matches \in BOOLEAN :
       IF u.email \in DOMAIN users /\ selected /\ matches
         THEN /\ user' = [user EXCEPT ![h].pc = "done", ![h].ret = "ok",
                                      ![h].cities = users[u.email]]
              /\ created' = Append(created, [id |-> u.id, email |-> u.email, ret |-> "ok",
                                             inserted |-> FALSE, op |-> u.op])
         ELSE Answered(h, "err")
  /\ UNCHANGED <<codec, mapOfCities, citiesTable, crashed, call, nCalls, nGeo, collVars, dispVars,
                 welcome>>

\* Lines 223-237: SELECT password and the bcrypt comparison.
deleteUser_Auth(h) ==
  LET u == user[h] IN
  /\ Alive
  /\ u.pc = "auth" /\ u.op = "deleteUser"
  /\ \E selected \in BOOLEAN, matches \in BOOLEAN :
       IF u.email \in DOMAIN users /\ selected /\ matches
         THEN /\ user' = [user EXCEPT ![h].pc = "delete"]
              /\ created' = created
         ELSE Answered(h, "err")
  /\ UNCHANGED <<codec, mapOfCities, citiesTable, crashed, call, nCalls, nGeo, collVars, dispVars,
                 welcome>>

\* deleteUser_Delete taking the cities of the deleted user out of the registry.
deleteUser_Delete_Unregister(h) ==
  LET u == user[h]
      gone == IF u.email \in DOMAIN users THEN Range(users[u.email]) ELSE {} IN
  /\ Alive
  /\ u.pc = "delete"
  /\ users' = [e \in DOMAIN users \ {u.email} |-> users[e]]
  /\ mapOfCities' = [n \in DOMAIN mapOfCities \ gone |-> mapOfCities[n]]
  /\ Answered(h, "ok")
  /\ UNCHANGED <<codec, citiesTable, crashed, call, nCalls, nGeo, collVars, disp, queue, welcome>>

\* Lines 239-246: DELETE FROM users WHERE email=$1.
deleteUser_Delete(h) ==
  LET u == user[h] IN
  /\ Alive
  /\ u.pc = "delete"
  /\ \E ok \in BOOLEAN :
       IF ok
         THEN /\ users' = [e \in DOMAIN users \ {u.email} |-> users[e]]
              /\ Answered(h, "ok")
         ELSE /\ users' = users
              /\ Answered(h, "err")
  /\ UNCHANGED <<codec, mapOfCities, citiesTable, crashed, call, nCalls, nGeo, collVars, disp, queue,
                 welcome>>

\* --------------------------------------------------------------------- Handler
\* What the HTTP handler answers for a result of createUser: errUserExist is
\* the conflict of a duplicate registration, which is not an error.
Handler_Status(ret) == IF ret \in {"ok", "exists"} THEN "success" ELSE "failure"

\* ------------------------------------------------------- EmailTask on the wire
(* publishEmailTask sends json.Marshal(task).  Strings are sequences of        *)
(* characters here, so that the escaping of encoding/json is computed: the     *)
(* quote and the backslash get a backslash, and <, as Marshal's HTML escaping  *)
(* has it, becomes \u003c.  Type and Meta carry omitempty: an empty Type and a *)
(* Meta of length 0, nil or not, are left out of the object.                   *)
Quote == "\""
Backslash == "\\"
Chars == {"a", "<", Quote, Backslash}
Strs == SeqsUpTo(Chars, MaxStr)

EncodeChar(c) ==
  CASE c = Quote -> <<Backslash, Quote>>
    [] c = Backslash -> <<Backslash, Backslash>>
    [] c = "<" -> <<Backslash, "u", "0", "0", "3", "c">>
    [] OTHER -> <<c>>

RECURSIVE EncodeChars(_)
EncodeChars(str) ==
  IF str = <<>> THEN <<>> ELSE EncodeChar(Head(str)) \o EncodeChars(Tail(str))

EncodeString(str) == <<Quote>> \o EncodeChars(str) \o <<Quote>>

Unicode(hex) == IF hex = <<"0", "0", "3", "c">> THEN "<" ELSE "?"

\* The decoder's string scanner, after the opening quote: up to the first
\* quote that no backslash precedes.
RECURSIVE DecodeChars(_)
DecodeChars(w) ==
  IF w = <<>> THEN <<>>
  ELSE IF Head(w) = Quote THEN <<>>
  ELSE IF Head(w) = Backslash
    THEN IF Len(w) >= 6 /\ w[2] = "u"
           THEN <<Unicode(SubSeq(w, 3, 6))>> \o DecodeChars(SubSeq(w, 7, Len(w)))
           ELSE IF Len(w) >= 2
             THEN <<w[2]>> \o DecodeChars(SubSeq(w, 3, Len(w)))
             ELSE <<>>
    ELSE <<Head(w)>> \o DecodeChars(Tail(w))

DecodeString(w) == IF w # <<>> /\ Head(w) = Quote THEN DecodeChars(Tail(w)) ELSE <<>>

\* A value of a map[string]interface{}: its dynamic type and its text.
GoValue(kind, v) == [kind |-> kind, v |-> v]
MetaValues ==
  {GoValue("string", <<"a">>), GoValue("string", <<"<">>),
   GoValue("int", <<"1">>), GoValue("float64", <<"1">>)}

\* Meta: the nil map, the empty map, or a map with the key the program uses.
NilMeta == [nil |-> TRUE, m |-> <<>>]
Metas ==
  {NilMeta, [nil |-> FALSE, m |-> <<>>]} \cup
  {[nil |-> FALSE, m |-> [k \in {"sent_by"} |-> v]] : v \in MetaValues}

WireTasks ==
  [To : Strs, Subject : {<<>>, <<"a">>}, Body : Strs, Type : {<<>>, <<"a">>}, Meta : Metas]

\* A string is a JSON string, an int or a float64 a JSON number.
EncodeValue(v) ==
  IF v.kind = "string" THEN [t |-> "string", text |-> EncodeString(v.v)]
                       ELSE [t |-> "number", text |-> v.v]

\* Into an interface{}: a JSON string is a string, a JSON number a float64.
DecodeValue(j) ==
  IF j.t = "string" THEN GoValue("string", DecodeString(j.text))
                    ELSE GoValue("float64", j.text)

\* json_Marshal with the omitempty options left out of the struct tags.
json_Marshal_NoOmitEmpty(task) ==
  [to |-> EncodeString(task.To), subject |-> EncodeString(task.Subject),
   body |-> EncodeString(task.Body),
   hasType |-> TRUE, type |-> EncodeString(task.Type),
   hasMeta |-> TRUE, metaNull |-> task.Meta.nil,
   meta |-> [k \in DOMAIN task.Meta.m |-> EncodeValue(task.Meta.m[k])]]

\* part_000 21-27 and 89: the object json.Marshal writes for the task.
json_Marshal(task) ==
  LET hasMeta == DOMAIN task.Meta.m # {} IN
  [to |-> EncodeString(task.To), subject |-> EncodeString(task.Subject),
   body |-> EncodeString(task.Body),
   hasType |-> task.Type # <<>>,
   type |-> IF task.Type # <<>> THEN EncodeString(task.Type) ELSE <<>>,
   hasMeta |-> hasMeta, metaNull |-> FALSE,
   meta |-> IF hasMeta THEN [k \in DOMAIN task.Meta.m |-> EncodeValue(task.Meta.m[k])]
                       ELSE <<>>]

\* json.Unmarshal of the object into an EmailTask: a member that is absent
\* leaves the zero value of its field, and null leaves the nil map.
json_Unmarshal(wire) ==
  [To |-> DecodeString(wire.to), Subject |-> DecodeString(wire.subject),
   Body |-> DecodeString(wire.body),
   Type |-> IF wire.hasType THEN DecodeString(wire.type) ELSE <<>>,
   Meta |-> IF wire.hasMeta /\ ~wire.metaNull
              THEN [nil |-> FALSE, m |-> [k \in DOMAIN wire.meta |-> DecodeValue(wire.meta[k])]]
              ELSE NilMeta]

NoTask == [To |-> <<>>, Subject |-> <<>>, Body |-> <<>>, Type |-> <<>>, Meta |-> NilMeta]
IdleCodec == [pc |-> "idle", task |-> NoTask, wire |-> json_Marshal(NoTask), out |-> NoTask]

publishEmailTask_Marshal ==
  /\ codec.pc = "task"
  /\ codec' = [codec EXCEPT !.pc = "wire", !.wire = json_Marshal(codec.task)]
  /\ UNCHANGED <<mapOfCities, citiesTable, crashed, call, nCalls, nGeo, collVars, dispVars,
                 reqVars>>

EmailTask_Unmarshal ==
  /\ codec.pc = "wire"
  /\ codec' = [codec EXCEPT !.pc = "decoded", !.out = json_Unmarshal(codec.wire)]
  /\ UNCHANGED <<mapOfCities, citiesTable, crashed, call, nCalls, nGeo, collVars, dispVars,
                 reqVars>>

\* ------------------------------------------------- accesses to mapOfCities
\* The goroutines whose next step writes, or reads, the map.  No step is
\* ordered against another by mapMu: no function locks it.
Writes(p) == p \in Handlers /\ call[p].pc = "commit"
Reads(p) ==
  \/ p \in Handlers /\ call[p].pc = "lookup"
  \/ p = "collector" /\ coll.pc = "range"
  \/ p = "dispatcher" /\ disp.pc = "log"
  \/ p = "dispatcher" /\ disp.pc = "city" /\ disp.j <= Len(disp.cities)
                      /\ ~CacheHit(disp.cities[disp.j])

Procs == Handlers \cup {"collector", "dispatcher"}

Racing ==
  \E p \in Procs, q \in Procs : p # q /\ Writes(p) /\ (Writes(q) \/ Reads(q))

\* Two unordered accesses, one a write: the Go runtime may detect the overlap
\* and end the process ("fatal error: concurrent map read and map write" or
\* "concurrent map writes"); when it does not, the accesses take effect in
\* either order (the steps above).
MapFault ==
  /\ Alive
  /\ Racing
  /\ crashed' = "fatal"
  /\ UNCHANGED <<codec, reqVars, mapOfCities, citiesTable, call, nCalls, nGeo, collVars, dispVars>>

\* ------------------------------------------------------------ specifications
\* No request has been served yet.
NoRequests ==
  /\ user = [h \in Handlers |-> IdleUser]
  /\ welcome = <<>>
  /\ created = <<>>
  /\ codec = IdleCodec

Init ==
  /\ citiesTable \in SeedTables
  /\ mapOfCities = createTables(citiesTable)
  /\ crashed = "no"
  /\ call = [h \in Handlers |-> IdleCall]
  /\ nCalls = 0
  /\ nGeo = 0
  /\ coll = IdleColl
  /\ metrics = EmptyBag
  /\ disp = IdleDisp
  /\ users = <<>>
  /\ queue = <<>>
  /\ NoRequests

\* One request at a time: registrations served one after the other.
Next ==
  \/ \E cities \in Inputs : addCitiesToDB_Begin("h1", cities)
  \/ addCitiesToDB_Geocode("h1")
  \/ addCitiesToDB_Lookup("h1")
  \/ addCitiesToDB_Send("h1")
  \/ addCitiesToDB_Commit("h1")

Spec == Init /\ [][Next]_vars

\* Two requests served at once (net/http runs each handler in its own goroutine).
NextConc ==
  \/ \E h \in Handlers, cities \in ConcInputs : addCitiesToDB_Begin(h, cities)
  \/ \E h \in Handlers : addCitiesToDB_Geocode(h)
  \/ \E h \in Handlers : addCitiesToDB_Lookup(h)
  \/ \E h \in Handlers : addCitiesToDB_Send(h)
  \/ \E h \in Handlers : addCitiesToDB_Commit(h)
  \/ MapFault

SpecConc == Init /\ [][NextConc]_vars

\* The collector's ticks over a registry loaded from the table cities.
CollectTables ==
  {EmptyBag, SetToBag({<<"Tokyo", 1>>}), SetToBag({<<"Tokyo", 1>>, <<"Oslo", 2>>}),
   SetToBag({<<"Tokyo", 1>>, <<"Oslo", 2>>, <<NoName, 2>>})}

InitCollect ==
  /\ citiesTable \in CollectTables
  /\ mapOfCities = createTables(citiesTable)
  /\ crashed = "no"
  /\ call = [h \in Handlers |-> IdleCall]
  /\ nCalls = 0
  /\ nGeo = 0
  /\ coll = IdleColl
  /\ metrics = EmptyBag
  /\ disp = IdleDisp
  /\ users = <<>>
  /\ queue = <<>>
  /\ NoRequests

NextCollect ==
  \/ insertWeatherData_Begin
  \/ insertWeatherData_Range
  \/ insertWeatherData_Fetch
  \/ insertWeatherData_Send

SpecCollect == InitCollect /\ [][NextCollect]_vars

\* The dispatcher's ticks over a table users as Postgres holds it when the
\* process starts, and a registry loaded from the table cities.
DispatchTables ==
  {SetToBag({<<"Tokyo", 1>>}), SetToBag({<<"Tokyo", 1>>, <<"Oslo", 2>>})}

InitDispatch ==
  /\ citiesTable \in DispatchTables
  /\ mapOfCities = createTables(citiesTable)
  /\ crashed = "no"
  /\ call = [h \in Handlers |-> IdleCall]
  /\ nCalls = 0
  /\ nGeo = 0
  /\ coll = IdleColl
  /\ metrics = EmptyBag
  /\ disp = IdleDisp
  /\ users \in [Emails -> SeqsUpTo(Names, MaxSubs)]
  /\ queue = <<>>
  /\ NoRequests

NextDispatch ==
  \/ sendWeatherEmails_Begin
  \/ sendWeatherEmails_Log
  \/ sendWeatherEmails_Query
  \/ sendWeatherEmails_Row
  \/ sendWeatherEmails_City
  \/ sendWeatherEmails_Fetch
  \/ sendWeatherEmails_Publish

SpecDispatch == InitDispatch /\ [][NextDispatch]_vars

\* Registration requests served one after the other, and the goroutines
\* they leave behind.
RequestEmails == Emails \cup {""}
RequestCities == {<<>>, <<"Tokyo">>, <<"Oslo">>}

NextUser ==
  \/ \E email \in RequestEmails, password \in BOOLEAN, cities \in RequestCities :
       createUser_Begin("h1", email, password, cities)
  \/ createUser_Select("h1")
  \/ createUser_Resolve("h1")
  \/ addCitiesToDB_Geocode("h1")
  \/ addCitiesToDB_Lookup("h1")
  \/ addCitiesToDB_Send("h1")
  \/ addCitiesToDB_Commit("h1")
  \/ createUser_Insert("h1")
  \/ \E k \in 1..MaxRequests : publishWelcomeEmail_Run(k)

SpecUser == Init /\ [][NextUser]_vars

\* The collector's ticks while a registration request is being served.
NextCollectConc ==
  \/ \E cities \in ConcInputs : addCitiesToDB_Begin("h1", cities)
  \/ addCitiesToDB_Geocode("h1")
  \/ addCitiesToDB_Lookup("h1")
  \/ addCitiesToDB_Send("h1")
  \/ addCitiesToDB_Commit("h1")
  \/ insertWeatherData_Begin
  \/ insertWeatherData_Range
  \/ insertWeatherData_Fetch
  \/ insertWeatherData_Send
  \/ MapFault

SpecCollectConc == Init /\ [][NextCollectConc]_vars

\* One EmailTask encoded and decoded again.
InitWire ==
  /\ citiesTable = EmptyBag
  /\ mapOfCities = createTables(citiesTable)
  /\ crashed = "no"
  /\ call = [h \in Handlers |-> IdleCall]
  /\ nCalls = 0
  /\ nGeo = 0
  /\ coll = IdleColl
  /\ metrics = EmptyBag
  /\ disp = IdleDisp
  /\ users = <<>>
  /\ queue = <<>>
  /\ user = [h \in Handlers |-> IdleUser]
  /\ welcome = <<>>
  /\ created = <<>>
  /\ \E task \in WireTasks : codec = [IdleCodec EXCEPT !.pc = "task", !.task = task]

NextWire ==
  \/ publishEmailTask_Marshal
  \/ EmailTask_Unmarshal

SpecWire == InitWire /\ [][NextWire]_vars

\* Two handlers serving createUser, changeUserData and deleteUser requests
\* for one account at the same time.
AccountOps == {"changeUserData", "deleteUser"}

Account(h) ==
  \/ \E cities \in RequestCities : createUser_Begin(h, "u1", TRUE, cities)
  \/ \E op \in AccountOps, email \in {"u1", ""}, cities \in RequestCities :
       Request_Begin(h, op, email, TRUE, cities)
  \/ createUser_Select(h)
  \/ createUser_Resolve(h)
  \/ createUser_Insert(h)
  \/ changeUserData_Auth(h)
  \/ changeUserData_Resolve(h)
  \/ changeUserData_Update(h)
  \/ deleteUser_Auth(h)
  \/ deleteUser_Delete(h)
  \/ addCitiesToDB_Geocode(h)
  \/ addCitiesToDB_Lookup(h)
  \/ addCitiesToDB_Send(h)
  \/ addCitiesToDB_Commit(h)

NextAccounts ==
  \/ Account("h1")
  \/ Account("h2")
  \/ MapFault

SpecAccounts == Init /\ [][NextAccounts]_vars

\* The whole service: one handler serving createUser, getUserData and
\* deleteUser requests, the welcome goroutines, the collector and the
\* dispatcher.  The two tickers share MaxTicks ticks and a tick of one starts
\* when the other is between ticks; the handler runs beside both.
Service(h) ==
  \/ \E cities \in RequestCities : createUser_Begin(h, "u1", TRUE, cities)
  \/ \E op \in {"getUserData", "deleteUser"} : Request_Begin(h, op, "u1", TRUE, <<>>)
  \/ createUser_Select(h)
  \/ createUser_Resolve(h)
  \/ createUser_Insert(h)
  \/ getUserData_Auth(h)
  \/ deleteUser_Auth(h)
  \/ deleteUser_Delete(h)
  \/ addCitiesToDB_Geocode(h)
  \/ addCitiesToDB_Lookup(h)
  \/ addCitiesToDB_Send(h)
  \/ addCitiesToDB_Commit(h)

NextService ==
  \/ Service("h1")
  \/ \E k \in 1..MaxRequests : publishWelcomeEmail_Run(k)
  \/ disp.pc = "idle" /\ coll.tick + disp.tick < MaxTicks /\ insertWeatherData_Begin
  \/ insertWeatherData_Range
  \/ insertWeatherData_Fetch
  \/ insertWeatherData_Send
  \/ coll.pc = "idle" /\ coll.tick + disp.tick < MaxTicks /\ sendWeatherEmails_Begin
  \/ sendWeatherEmails_Log
  \/ sendWeatherEmails_Query
  \/ sendWeatherEmails_Row
  \/ sendWeatherEmails_City
  \/ sendWeatherEmails_Fetch
  \/ sendWeatherEmails_Publish
  \/ MapFault

SpecService == Init /\ [][NextService]_vars

\* ===================================================================== claims

\* C1: no write of mapOfCities by addCitiesToDB is ever unordered against
\* another goroutine's write, lookup or iteration of the map: there is no
\* state in which one goroutine stands at a write of the map and another at
\* a write or a read of it.
RegistryRaceFree == ~Racing

\* C2: a call in which a geocoding call failed returns an error and commits
\* nothing: when it is over, the registry and the table cities are what they
\* were when it began.
GeocodeFailureAbortsCall ==
  \A h \in Handlers :
    (call[h].pc = "done" /\ call[h].geoFailed) =>
       /\ call[h].ret = "err"
       /\ mapOfCities = call[h].map0
       /\ citiesTable = call[h].table0

\* C3: a tick in which a fetch failed has written no sample.
FailFastCollection ==
  coll.fetchFailed => \A row \in BagToSet(metrics) : row[1] # coll.tick

\* C3, its case: the fetch failed after other cities of the tick were fetched
\* and appended.
FailFastCollectionCase ==
  coll.fetchFailed /\ coll.fetched # {} /\ coll.tick = 2 /\ metrics # EmptyBag

DigestOf(tick, email) ==
  {q \in 1..Len(queue) : queue[q].tick = tick /\ queue[q].task.To = email}

\* C4: a user for whom a series was obtained in the tick gets a digest in the
\* tick, whatever happens to the user's other cities: once the tick is through
\* with the user (and the publish itself did not fail), the queue holds the
\* user's digest with one section of 24 entries per obtained city, in the
\* order they were obtained; and the tick never ends on a later city of a
\* user for whom a series is already obtained.
FailSoftDispatch ==
  /\ \A k \in 1..Len(disp.done) :
       LET r == disp.done[k] IN
       (r.got # <<>> /\ r.outcome # "dropped") =>
          \E q \in DigestOf(disp.tick, r.email) :
            LET body == queue[q].task.Body IN
            /\ Len(body) = Len(r.got)
            /\ \A i \in 1..Len(body) :
                 /\ Len(body[i].entries) = ForecastLen
                 /\ body[i].entries[1].of = r.got[i]
  /\ crashed = "panic" => disp.got = <<>>

IsSubSeq(s, t) ==
  \E f \in [1..Len(s) -> 1..Len(t)] :
    /\ \A a \in 1..Len(s) : s[a] = t[f[a]]
    /\ \A a \in 1..Len(s), b \in 1..Len(s) : a < b => f[a] < f[b]

\* C5: in every published digest the headers follow the subscription order
\* of the user and each header names the city whose forecast its section lists.
DigestHeadersNameTheirCity ==
  \A q \in 1..Len(queue) :
    LET body == queue[q].task.Body IN
    /\ IsSubSeq([i \in 1..Len(body) |-> body[i].header], queue[q].cities)
    /\ \A i \in 1..Len(body) : body[i].header = body[i].entries[1].of

\* C6: within a tick no provider call for a city follows a successful one
\* for the same city: at most one successful call per city, and none after it.
ForecastFetchedOncePerTick ==
  \A a \in 1..Len(disp.fetches), b \in 1..Len(disp.fetches) :
    (a < b /\ disp.fetches[a].city = disp.fetches[b].city) => ~disp.fetches[a].ok

\* C6, its case: two different users got Tokyo's series in one tick and the
\* provider was asked for Tokyo once.
ForecastFetchedOncePerTickCase ==
  /\ Len(disp.done) = 2
  /\ disp.done[1].email # disp.done[2].email
  /\ "Tokyo" \in Range(disp.done[1].got) \cap Range(disp.done[2].got)
  /\ Cardinality({k \in 1..Len(disp.fetches) : disp.fetches[k].city = "Tokyo"}) = 1

\* C7: a user for whom no series was obtained is passed over, no task of the
\* tick is addressed to that user, and the tick is at a later row.
ZeroForecastSkip ==
  \A k \in 1..Len(disp.done) :
    LET r == disp.done[k] IN
    r.got = <<>> =>
      /\ r.outcome = "skipped"
      /\ DigestOf(disp.tick, r.email) = {}
      /\ \E m \in 1..(disp.u - 1) : disp.rows[m].email = r.email

\* C7, its case: the first user subscribed to cities and got none, and the
\* tick went on and published the next user's digest.
ZeroForecastSkipCase ==
  /\ Len(disp.done) = 2
  /\ disp.done[1].cities # <<>>
  /\ disp.done[1].got = <<>>
  /\ disp.done[2].outcome = "published"

Count(s, x) == Cardinality({k \in 1..Len(s) : s[k] = x})

\* C8 as stated: the provider is never asked for a name that was registered
\* when the call began.
KnownNameCostsNoCall ==
  \A h \in Handlers : \A k \in 1..Len(call[h].asked) :
    call[h].asked[k] \notin DOMAIN call[h].map0

\* C8 as amended: a successful call has asked the provider once for every
\* occurrence of a name that was registered when the call began.
KnownNameIsGeocodedAgain ==
  \A h \in Handlers :
    call[h].ret = "ok" =>
      \A n \in DOMAIN call[h].map0 :
        Count(call[h].asked, n) = Count(call[h].cities, n)

\* C8, its case: Tokyo was registered when the call began, the call was
\* given Tokyo, succeeded and added nothing to the registry.
KnownNameIsGeocodedAgainCase ==
  /\ call["h1"].ret = "ok"
  /\ "Tokyo" \in DOMAIN call["h1"].map0
  /\ call["h1"].cities = <<"Tokyo">>
  /\ mapOfCities = call["h1"].map0

CoordinatesNeverChange ==
  [][\A n \in DOMAIN mapOfCities :
       n \in DOMAIN mapOfCities' /\ mapOfCities'[n] = mapOfCities[n]]_vars

\* The subscriptions to city the tick has gone through: those of the users it
\* is through with and those before the current one of the current user.
Visits(city) ==
  LET inDone == {<<k, i>> \in (1..Len(disp.done)) \X (1..MaxSubs + 1) :
                   i <= Len(disp.done[k].cities) /\ disp.done[k].cities[i] = city}
      inCurrent == IF disp.pc \in {"city", "fetch"}
                     THEN {i \in 1..(disp.j - 1) : disp.cities[i] = city}
                     ELSE {}
  IN Cardinality(inDone) + Cardinality(inCurrent)

FetchesOf(city) == {k \in 1..Len(disp.fetches) : disp.fetches[k].city = city}

\* C11: a failed fetch is not memoized.  The cache holds exactly the cities
\* whose fetch succeeded in the tick; as long as no fetch for a registered
\* city has succeeded, every subscription to it the tick came to has called
\* the provider; and a series obtained for a user is in that user's parts.
FailureNotMemoized ==
  /\ DOMAIN disp.mapOfCityWeatherForecast =
       {disp.fetches[k].city : k \in {a \in 1..Len(disp.fetches) : disp.fetches[a].ok}}
  /\ Alive =>
       \A c \in DOMAIN mapOfCities :
         (\A k \in FetchesOf(c) : ~disp.fetches[k].ok) =>
            Visits(c) = Cardinality(FetchesOf(c))
  /\ \A k \in 1..Len(disp.fetches) :
       disp.fetches[k].ok =>
         /\ \A d \in 1..Len(disp.done) :
              disp.done[d].email = disp.fetches[k].for =>
                 disp.fetches[k].city \in Range(disp.done[d].got)
         /\ (disp.pc \in {"city", "fetch"} /\ disp.email = disp.fetches[k].for) =>
              disp.fetches[k].city \in Range(disp.got)

\* C11, its case: Tokyo's fetch failed for one user, was made again for the
\* next one and succeeded, and that user's digest with Tokyo was published.
FailureNotMemoizedCase ==
  /\ Len(disp.done) = 2
  /\ Len(disp.fetches) = 2
  /\ disp.fetches[1] = [city |-> "Tokyo", ok |-> FALSE, for |-> disp.done[1].email]
  /\ disp.fetches[2] = [city |-> "Tokyo", ok |-> TRUE, for |-> disp.done[2].email]
  /\ disp.done[1].email # disp.done[2].email
  /\ disp.done[2].outcome = "published"
  /\ "Tokyo" \in DOMAIN disp.mapOfCityWeatherForecast
  /\ \E q \in DigestOf(disp.tick, disp.done[2].email) :
       queue[q].task.Body[1].entries[1].of = "Tokyo"

\* C12: a digest whose publish failed (an error of publishEmailTask, its 5s
\* timeout included) is dropped: no task of the tick is addressed to that
\* user, the user was attempted once, the tick is at a later row, and a
\* tick that has handled a user ends only after its last row.
PublishFailureDropsDigest ==
  /\ \A k \in 1..Len(disp.done) :
       LET r == disp.done[k] IN
       r.outcome = "dropped" =>
         /\ DigestOf(disp.tick, r.email) = {}
         /\ \A m \in 1..Len(disp.done) : disp.done[m].email = r.email => m = k
         /\ \E m \in 1..(disp.u - 1) : disp.rows[m].email = r.email
  /\ (disp.pc = "idle" /\ disp.done # <<>>) => disp.u > Len(disp.rows)

\* C12, its case: the first user's publish failed and the tick went on and
\* published the second user's digest.
PublishFailureDropsDigestCase ==
  /\ Len(disp.done) = 2
  /\ disp.done[1].outcome = "dropped"
  /\ disp.done[2].outcome = "published"
  /\ disp.pc = "idle"

WelcomeTasks(email) ==
  {q \in 1..Len(queue) : queue[q].task.Type = "welcome" /\ queue[q].task.To = email}

\* C13: every welcome goroutine, and so every welcome task, belongs to one
\* createUser call that inserted the record of that email and returned nil;
\* a call that returned an error has started none; and the queue holds no
\* more welcome tasks for an email than calls have inserted it.
WelcomeOnlyAfterInsert ==
  /\ \A k \in 1..Len(welcome) :
       /\ \E c \in 1..Len(created) :
            /\ created[c].id = welcome[k].id
            /\ created[c].email = welcome[k].email
            /\ created[c].inserted
       /\ \A m \in 1..Len(welcome) : welcome[m].id = welcome[k].id => m = k
  /\ \A c \in 1..Len(created) :
       created[c].ret # "ok" =>
          /\ ~created[c].inserted
          /\ \A k \in 1..Len(welcome) : welcome[k].id # created[c].id
  /\ \A e \in RequestEmails :
       /\ Cardinality(WelcomeTasks(e)) =
            Cardinality({k \in 1..Len(welcome) :
                           welcome[k].email = e /\ welcome[k].state = "published"})
       /\ Cardinality(WelcomeTasks(e)) <=
            Cardinality({c \in 1..Len(created) :
                           created[c].email = e /\ created[c].inserted})

\* C13, its case: u1 was registered and welcomed, and a second createUser
\* for u1 failed and left the queue with the one welcome task.
WelcomeOnlyAfterInsertCase ==
  /\ Len(created) = 2
  /\ created[1].email = "u1" /\ created[1].ret = "ok"
  /\ created[2].email = "u1" /\ created[2].ret # "ok"
  /\ Cardinality(WelcomeTasks("u1")) = 1
  /\ Len(queue) = 1

\* C14: a createUser call that inserted the user record has returned nil,
\* and its result stays nil whatever becomes of its welcome goroutine:
\* still to run, published, or failed with the task lost.
WelcomeDoesNotDecideResult ==
  /\ \A c \in 1..Len(created) : created[c].inserted => created[c].ret = "ok"
  /\ \A k \in 1..Len(welcome) :
       /\ welcome[k].state \in {"pending", "published", "lost"}
       /\ \A c \in 1..Len(created) :
            created[c].id = welcome[k].id => created[c].ret = "ok"
  /\ \A k \in 1..Len(welcome) :
       welcome[k].state = "lost" => WelcomeTasks(welcome[k].email) = {}
          \/ \E m \in 1..Len(welcome) : m # k /\ welcome[m].email = welcome[k].email

\* C14, its case: two calls have returned nil; the welcome task of the first
\* was lost and the goroutine of the second has not run yet.
WelcomeDoesNotDecideResultCase ==
  /\ Len(created) = 2
  /\ created[1].ret = "ok" /\ created[2].ret = "ok"
  /\ Len(welcome) = 2
  /\ welcome[1].state = "lost"
  /\ welcome[2].state = "pending"
  /\ queue = <<>>

NoPartialCommit ==
  \A h \in Handlers :
    call[h].ret = "err" =>
       /\ mapOfCities = call[h].map0
       /\ citiesTable = call[h].table0

\* C15, its case: both names of the call resolved to new cities and were
\* appended, and the one batch.Send failed.
NoPartialCommitCase ==
  /\ call["h1"].ret = "err"
  /\ call["h1"].cities = <<"Tokyo", "Oslo">>
  /\ DOMAIN call["h1"].tmpMapOfCities = {"Tokyo", "Oslo"}
  /\ Len(call["h1"].batch) = 2
  /\ call["h1"].i = 3
  /\ ~call["h1"].geoFailed

RowsOfTick(tick) == {row \in BagToSet(metrics) : row[1] = tick}

\* C16: a tick that succeeded has written exactly one sample for every city
\* the iteration produced and for no other; a tick that is still iterating,
\* fetching or about to send has written nothing, and neither has a tick
\* that returned an error: the samples of a tick reach the table
\* weather_metrics all together, by the one batch.Send at its end.
OneBatchPerTick ==
  /\ coll.ret = "ok" =>
       /\ {row[2] : row \in RowsOfTick(coll.tick)} = coll.visited
       /\ \A row \in RowsOfTick(coll.tick) : CopiesIn(row, metrics) = 1
  /\ coll.pc \in {"range", "fetch", "send"} => RowsOfTick(coll.tick) = {}
  /\ coll.ret = "err" => RowsOfTick(coll.tick) = {}

\* C16, its case: the second tick over Tokyo and Oslo fetched both and sent
\* its batch, after a first tick that did the same.
OneBatchPerTickCase ==
  /\ coll.ret = "ok"
  /\ coll.tick = 2
  /\ coll.visited = {"Tokyo", "Oslo"}
  /\ BagCardinality(metrics) = 4

\* C17: a tick samples the registry as it was when the tick started: the
\* iteration produces no city that was registered after the start, a
\* successful tick has written a row for exactly the cities of the start,
\* and no write of the registry ever stands against the tick's iteration.
TickSamplesStartSnapshot ==
  /\ coll.visited \subseteq coll.atStart
  /\ coll.ret = "ok" => {row[2] : row \in RowsOfTick(coll.tick)} = coll.atStart
  /\ ~(coll.pc = "range" /\ \E h \in Handlers : Writes(h))

\* C18: every series in the tick's cache has 24 points, each a point of the
\* provider's list for that city, and no provider response ends the tick:
\* the fetch gives such a series or an error for the one city.
ForecastSeriesHas24Points ==
  /\ crashed # "panic"
  /\ \A c \in DOMAIN disp.mapOfCityWeatherForecast :
       LET forecast == disp.mapOfCityWeatherForecast[c] IN
       /\ Len(forecast) = ForecastLen
       /\ \A k \in 1..Len(forecast) : forecast[k] = Point(mapOfCities[c], k)

\* C19: the list a successful call returns holds every name the provider
\* resolved for the call, each exactly once.
ReturnedListIsDistinct ==
  \A h \in Handlers :
    call[h].ret = "ok" =>
       /\ Range(call[h].addedCities) = call[h].resolved
       /\ \A n \in Range(call[h].addedCities) : Count(call[h].addedCities, n) = 1

RowsOfCity(n) == {row \in BagToSet(citiesTable) : row[1] = n}

\* C26: the table cities holds at most one row per city name, and, whenever
\* no registration is between its batch.Send and the end of its commit
\* loop, that row carries the coordinates the registry holds for the name.
CityTableUniqueKey ==
  /\ \A row \in BagToSet(citiesTable) :
       /\ CopiesIn(row, citiesTable) = 1
       /\ RowsOfCity(row[1]) = {row}
  /\ (\A h \in Handlers : call[h].pc \in {"idle", "done"}) =>
       \A row \in BagToSet(citiesTable) :
         /\ row[1] \in DOMAIN mapOfCities
         /\ mapOfCities[row[1]].Co = row[2]

\* A meta map that JSON carries as it is: nil, or not empty with values that
\* are strings or float64 numbers.
PlainMeta(meta) ==
  \/ meta.nil
  \/ /\ DOMAIN meta.m # {}
     /\ \A k \in DOMAIN meta.m : meta.m[k].kind \in {"string", "float64"}

\* C21 (as stated): the decoded task equals the encoded one, whatever the
\* task.
RoundTripIdentity ==
  codec.pc = "decoded" => codec.out = codec.task

\* C21 (amended): to, subject, body and type always come back as they were,
\* an empty type and a meta of length 0 are left off the wire and come back
\* as the empty string and the nil map, and meta comes back as it was when it
\* is nil or a non-empty map of strings and float64 numbers.
RoundTripOfPlainTasks ==
  codec.pc = "decoded" =>
    LET task == codec.task  out == codec.out  wire == codec.wire IN
    /\ out.To = task.To /\ out.Subject = task.Subject
    /\ out.Body = task.Body /\ out.Type = task.Type
    /\ wire.hasType <=> task.Type # <<>>
    /\ wire.hasMeta <=> DOMAIN task.Meta.m # {}
    /\ DOMAIN task.Meta.m = {} => out.Meta = NilMeta
    /\ PlainMeta(task.Meta) => out = task

RoundTripOfPlainTasksCase ==
  /\ codec.pc = "decoded"
  /\ codec.task.Type = <<>> /\ codec.task.Meta = NilMeta
  /\ codec.task.Body = <<"<", Quote>>
  /\ ~codec.wire.hasType /\ ~codec.wire.hasMeta
  /\ codec.out = codec.task

\* C22: a tick that returned an error leaves the next tick enabled; the tick
\* after a failed one holds nothing but what it fetched itself, and when it
\* succeeds it has fetched every registered city and written one sample for
\* each, while the failed tick has no row.
CollectorSurvivesFailedTick ==
  /\ (coll.pc = "idle" /\ coll.ret = "err" /\ coll.tick < MaxTicks) =>
       ENABLED insertWeatherData_Begin
  /\ coll.prev = "err" =>
       /\ coll.fetched \subseteq coll.visited
       /\ Range(coll.batch) \subseteq coll.fetched
       /\ RowsOfTick(coll.tick - 1) = {}
       /\ coll.ret = "ok" =>
            /\ coll.fetched = DOMAIN mapOfCities
            /\ RowsOfTick(coll.tick) = {<<coll.tick, n>> : n \in DOMAIN mapOfCities}
            /\ \A row \in RowsOfTick(coll.tick) : CopiesIn(row, metrics) = 1

CollectorSurvivesFailedTickCase ==
  /\ coll.tick = 2
  /\ coll.prev = "err"
  /\ coll.ret = "ok"
  /\ coll.fetched = {"Tokyo", "Oslo"}
  /\ metrics = SetToBag({<<2, "Tokyo">>, <<2, "Oslo">>})

\* C24: the cache is empty when a tick starts, holds only cities the provider
\* answered for in this tick, and every series a user of the tick got was
\* fetched in the tick, whatever earlier ticks fetched.
ForecastCacheLivesOneTick ==
  LET fetchedNow == {disp.fetches[k].city :
                       k \in {a \in 1..Len(disp.fetches) : disp.fetches[a].ok}} IN
  /\ disp.pc \in {"log", "query"} => disp.mapOfCityWeatherForecast = <<>>
  /\ DOMAIN disp.mapOfCityWeatherForecast \subseteq fetchedNow
  /\ Range(disp.got) \subseteq fetchedNow
  /\ \A k \in 1..Len(disp.done) : Range(disp.done[k].got) \subseteq fetchedNow

\* C24, its case: tick 1 published a digest with Tokyo's series, and the
\* first subscription to Tokyo in tick 2 called the provider again.
ForecastCacheLivesOneTickCase ==
  /\ disp.tick = 2
  /\ \E k \in 1..Len(queue) : queue[k].tick = 1 /\ "Tokyo" \in Range(queue[k].cities)
  /\ Len(disp.fetches) >= 1
  /\ disp.fetches[1].city = "Tokyo" /\ disp.fetches[1].ok
  /\ "Tokyo" \in Range(disp.got)

\* C25: every city name in a subscription list of the table users is a key
\* of the registry.
SubscriptionsAreRegistered ==
  \A e \in DOMAIN users : Range(users[e]) \subseteq DOMAIN mapOfCities

\* C25, its case: the account was created with one city and changeUserData
\* has stored another, both held by the registry.
SubscriptionsAreRegisteredCase ==
  /\ \E c \in 1..Len(created) : created[c].op = "createUser" /\ created[c].inserted
  /\ \E c \in 1..Len(created) : created[c].op = "changeUserData" /\ created[c].ret = "ok"
  /\ "u1" \in DOMAIN users
  /\ users["u1"] = <<"Oslo">>
  /\ DOMAIN mapOfCities = {"Tokyo", "Oslo"}

\* C23: a step that changes the registry is an iteration of the commit loop of
\* an addCitiesToDB call whose batch was sent: it stores one entry of the
\* call's tmpMapOfCities, removes no key, and is no step of the collector,
\* the dispatcher, a welcome goroutine, getUserData or deleteUser.
RegistryWrittenOnlyByCommit ==
  [][mapOfCities' # mapOfCities =>
       /\ DOMAIN mapOfCities \subseteq DOMAIN mapOfCities'
       /\ \E h \in Handlers :
            /\ call[h].pc = "commit" /\ call[h].sent
            /\ user[h].op \notin {"getUserData", "deleteUser"}
            /\ \E k \in DOMAIN call[h].tmpMapOfCities :
                 /\ call'[h].ranged = call[h].ranged \cup {k}
                 /\ mapOfCities' = StoreCity(mapOfCities, k, call[h].tmpMapOfCities[k])
       /\ coll' = coll /\ disp' = disp /\ welcome' = welcome
       /\ queue' = queue /\ users' = users /\ user' = user]_vars

\* C23, its case: the registry holds Tokyo, committed for a createUser, after
\* a collection tick, a dispatch tick, a welcome publish and the deleteUser
\* of the only user have all run to their ends.
RegistryWrittenOnlyByCommitCase ==
  /\ DOMAIN mapOfCities = {"Tokyo"}
  /\ coll.tick = 1 /\ coll.pc = "idle"
  /\ disp.tick = 1 /\ disp.pc = "idle"
  /\ \E k \in 1..Len(welcome) : welcome[k].state = "published"
  /\ \E c \in 1..Len(created) : created[c].op = "createUser" /\ created[c].inserted
  /\ \E c \in 1..Len(created) : created[c].op = "deleteUser" /\ created[c].ret = "ok"
  /\ users = <<>>
====
